---- MODULE Spec2Model ----
(***************************************************************************)
(* Model of RTBKIT::HttpExchangeConnector                                  *)
(* (plugins/exchange/http_exchange_connector.cc).                          *)
(*                                                                         *)
(* The connector owns a registry (the set `handlers` and the shared        *)
(* pointer `logger`, both guarded by `handlersLock`), a small life cycle   *)
(* (start / shutdown / destructor) and the per-request protocol methods.   *)
(* Worker threads call the registry operations concurrently; each          *)
(* operation is split at its lock acquisition and at every statement of    *)
(* its critical section.                                                   *)
(***************************************************************************)
EXTENDS Integers, Sequences, FiniteSets, TLC

\* ------------------------------------------------------------------ bounds
NumThreads == 2
MaxHandlers == 2
MaxLoggers == 2
MaxShutdowns == 2
MaxConnections == 2

Threads == 1..NumThreads
HandlerIds == 1..MaxHandlers
LoggerIds == 1..MaxLoggers

\* ------------------------------------------------------- program constants
\* an empty std::shared_ptr / a null pointer
NoLogger == 0
NoHandler == 0
\* a handler the caller built itself: it was never given to the registry
ForeignHandler == MaxHandlers + 1

DefaultRealTimePriority == -1

ConfigurationError == "need to initialize handler factory"
ConstructionError == "failed to create handler"
BindError == "bind failed"
NoError == ""

DefaultPingTimeUnknownHostsMs == 20
DefaultNumThreads == 8
DefaultListenPort == 10001
\* DEF_BACKLOG, a constant of the endpoint library that this file only names:
\* the number stands for it
DEF_BACKLOG == 128

\* ------------------------------------------------ inputs of the protocol
Verbs == {"GET", "POST"}
Resources == {"/bid", "/ready", "/other"}
Payloads == {"valid", "malformed"}
Hosts == {"exchange1", "exchange2"}
EmptyMap == [h \in {} |-> 0]
\* the configurations of pingTimesByHostMs tried
PingTables == {EmptyMap,
               [h \in {"exchange1"} |-> 5],
               [h \in Hosts |-> IF h = "exchange1" THEN 5 ELSE 20]}
UnknownHostPings == {DefaultPingTimeUnknownHostsMs, 35}
ProtocolMethods == {"parseBidRequest", "getTimeAvailableMs", "getResponse"}
NoRequest == [verb |-> "", resource |-> "", payload |-> "", peer |-> ""]
\* a double not computed yet; a computed one is <<value>>
Unset == <<>>
\* init was never called; getServiceStatus was never called
NoArgs == <<>>
NoStatus == <<>>

\* handlerFactory is a std::function: empty, the constructor's default
\* (new HttpAuctionHandler()), or one installed later that yields no instance
FactoryStates == {"empty", "default", "returnsNull"}

VARIABLES
    \* ---- registry (connector fields)
    handlerFactory,   \* the installed handler factory
    handlers,         \* std::set of live handlers
    logger,           \* the connector's current logger (NoLogger when empty)
    handlerLogger,    \* handler->logger of every handler constructed so far
    closeCount,       \* per logger object: how often close() was called on it
    handlersLock,     \* the thread holding handlersLock, 0 when free
    \* ---- allocation
    numHandlers,      \* handler objects constructed so far
    numLoggers,       \* logger objects constructed so far
    \* ---- threads
    pc,               \* position of every worker thread
    local,            \* the handler a thread's call is about
    exc,              \* the exception a thread's call is unwinding with
    \* ---- life cycle (main thread)
    mainPc,
    mainExc,
    transport,        \* state of the HttpEndpoint / PassiveEndpoint
    baseShutdown,     \* ExchangeConnector::shutdown() has run
    realTimePriority,
    realTime,         \* makeRealTime was requested
    shutdownCalls,    \* calls of shutdown() that have returned
    shutdownLogger,   \* the logger installed when shutdown() was last called
    \* ---- call history
    created,          \* calls of makeNewHandlerShared that returned a handler
    released,         \* calls of finishedWithHandler that erased a handler
    loggerAtInsert,   \* the current logger at each handler's registration
    stopped,          \* the loggers a stopRequestLogging call found installed
    \* ---- the endpoint (transport collaborator)
    initArgs,         \* the arguments of the last PassiveEndpoint::init call
    connections,      \* open connections, by peer host
    numServingRequest, \* connections that are in the middle of a request
    serviceStatus,    \* the last result of getServiceStatus
    \* ---- configuration given to the endpoint by start()
    numThreads,
    listenPort,
    bindHost,
    performNameLookup,
    backlog,
    \* ---- configuration read by the protocol methods
    auctionResource,
    auctionVerb,
    pingTimesByHostMs,
    pingTimeUnknownHostsMs,
    overrides,        \* the protocol methods the exchange's subclass overrides
    \* ---- the request a connection is serving
    request,          \* its header, payload and peer
    reqState,
    reqError,         \* what() of the exception that took it off the path
    timeAvailableMs,
    auctionOutcome,
    replies,          \* what was put on the wire for it
    roundTripTimeMs   \* the last result of getRoundTripTimeMs for its connection

registryVars == <<handlerFactory, handlers, logger, handlerLogger, closeCount>>
allocVars == <<numHandlers, numLoggers>>
threadVars == <<pc, local, exc>>
lifeVars == <<mainPc, mainExc, transport, baseShutdown, realTimePriority, realTime,
              shutdownCalls, shutdownLogger>>
histVars == <<created, released, loggerAtInsert, stopped>>

endpointVars == <<initArgs, connections, numServingRequest, serviceStatus>>
configVars == <<numThreads, listenPort, bindHost, performNameLookup, backlog,
                auctionResource, auctionVerb, pingTimesByHostMs,
                pingTimeUnknownHostsMs, overrides>>
requestVars == <<request, reqState, reqError, timeAvailableMs, auctionOutcome,
                 replies, roundTripTimeMs>>
connectorVars == <<registryVars, handlersLock, allocVars, threadVars, lifeVars, histVars>>

vars == <<connectorVars, endpointVars, configVars, requestVars>>

\* ------------------------------------------------------------ constructor
\* postConstructorInit: the fields this model follows
InitConnector ==
    /\ handlerFactory = "default"
    /\ handlers = {}
    /\ logger = NoLogger
    /\ handlerLogger = [h \in HandlerIds |-> NoLogger]
    /\ closeCount = [l \in LoggerIds |-> 0]
    /\ handlersLock = 0
    /\ numHandlers = 0
    /\ numLoggers = 0
    /\ pc = [t \in Threads |-> "idle"]
    /\ local = [t \in Threads |-> NoHandler]
    /\ exc = [t \in Threads |-> NoError]
    /\ mainPc = "ready"
    /\ mainExc = NoError
    /\ transport = "constructed"
    /\ baseShutdown = FALSE
    /\ realTimePriority = DefaultRealTimePriority
    /\ realTime = FALSE
    /\ shutdownCalls = 0
    /\ shutdownLogger = NoLogger
    /\ created = 0
    /\ released = 0
    /\ loggerAtInsert = [h \in HandlerIds |-> NoLogger]
    /\ stopped = {}
    /\ numThreads = DefaultNumThreads
    /\ listenPort = DefaultListenPort
    /\ bindHost = "*"
    /\ performNameLookup = TRUE
    /\ backlog = DEF_BACKLOG
    /\ initArgs = NoArgs
    /\ connections = [h \in Hosts |-> 0]
    /\ numServingRequest = 0
    /\ serviceStatus = NoStatus

\* no request has arrived
InitRequestIdle ==
    /\ request = NoRequest
    /\ reqState = "Idle"
    /\ reqError = <<>>
    /\ timeAvailableMs = Unset
    /\ auctionOutcome = "none"
    /\ replies = <<>>
    /\ roundTripTimeMs = Unset

\* the base class as constructed: strings and the map are empty
Init ==
    /\ InitConnector
    /\ auctionResource = ""
    /\ auctionVerb = ""
    /\ pingTimesByHostMs = EmptyMap
    /\ pingTimeUnknownHostsMs = DefaultPingTimeUnknownHostsMs
    /\ overrides = {}
    /\ InitRequestIdle

\* the connector object exists and its destructor has not begun
Alive == mainPc \notin {"dtor_base", "dead"}

AllIdle == \A t \in Threads : pc[t] = "idle"

\* ------------------------------------------------------------ pure helpers
\* handlerFactory(): a new HttpAuctionHandler (the next object), or no instance
FactoryResult(factory, n) == IF factory = "default" THEN n + 1 ELSE NoHandler

\* a slip: the set is assigned instead of inserted into
SetInsertReplacing(set, h) == {h}
\* a slip: the set is cleared instead of erased from
SetEraseClearing(set, h) == {}

\* std::set::insert and std::set::erase
SetInsert(set, h) == set \cup {h}
SetErase(set, h) == set \ {h}

\* if (logger) handler->logger = logger;
BindLogger(binding, h, current) ==
    IF current # NoLogger THEN [binding EXCEPT ![h] = current] ELSE binding

\* a slip: the logger is dropped without being closed
CloseLoggerSkipped(counts, current) == counts

\* if (logger) logger->close();
CloseLogger(counts, current) ==
    IF current # NoLogger THEN [counts EXCEPT ![current] = @ + 1] ELSE counts

\* Guard guard(handlersLock): blocks until the lock is free
\* a slip: the lock is taken whoever holds it
CanLockAlways == TRUE

CanLock == handlersLock = 0

\* the handlers whose makeNewHandlerShared call is still running
UnderConstruction ==
    {local[t] : t \in {u \in Threads :
                          pc[u] \in {"mk_lock", "mk_bind", "mk_insert", "mk_return"}}}

\* the handlers a caller may hold a handle (a shared_ptr copy) of: those that
\* makeNewHandlerShared has returned
Returned == (1..numHandlers) \ UnderConstruction

\* shared_ptr ownership: a logger object cannot be destroyed while the
\* connector or a registered handler references it
LoggerReferenced(l) ==
    \/ logger = l
    \/ \E h \in handlers \cap HandlerIds : handlerLogger[h] = l

\* a slip: the factory's result is used without the null check
MakeNewHandlerConstructUnchecked(t) ==
    /\ Alive /\ pc[t] = "idle"
    /\ IF handlerFactory = "empty"
       THEN /\ pc' = [pc EXCEPT ![t] = "threw"]
            /\ exc' = [exc EXCEPT ![t] = ConfigurationError]
            /\ UNCHANGED <<local, numHandlers>>
       ELSE /\ numHandlers < MaxHandlers
            /\ numHandlers' = numHandlers + 1
            /\ local' = [local EXCEPT ![t] = FactoryResult(handlerFactory, numHandlers)]
            /\ pc' = [pc EXCEPT ![t] = "mk_lock"]
            /\ exc' = exc
    /\ UNCHANGED <<configVars, requestVars, endpointVars,
                   registryVars, handlersLock, numLoggers,
                   lifeVars, histVars>>

\* ----------------------------------------------- makeNewHandlerShared
\* the factory checks and the construction of the handler, before the lock
MakeNewHandlerConstruct(t) ==
    /\ Alive /\ pc[t] = "idle"
    /\ IF handlerFactory = "empty"
       THEN /\ pc' = [pc EXCEPT ![t] = "threw"]
            /\ exc' = [exc EXCEPT ![t] = ConfigurationError]
            /\ UNCHANGED <<local, numHandlers>>
       ELSE IF FactoryResult(handlerFactory, numHandlers) = NoHandler
       THEN /\ pc' = [pc EXCEPT ![t] = "threw"]
            /\ exc' = [exc EXCEPT ![t] = ConstructionError]
            /\ UNCHANGED <<local, numHandlers>>
       ELSE /\ numHandlers < MaxHandlers
            /\ numHandlers' = numHandlers + 1
            /\ local' = [local EXCEPT ![t] = FactoryResult(handlerFactory, numHandlers)]
            /\ pc' = [pc EXCEPT ![t] = "mk_lock"]
            /\ exc' = exc
    /\ UNCHANGED <<configVars, requestVars, endpointVars,
                   registryVars, handlersLock, numLoggers,
                   lifeVars, histVars>>

\* the exception leaves the call
Unwind(t) ==
    /\ pc[t] = "threw"
    /\ pc' = [pc EXCEPT ![t] = "idle"]
    /\ exc' = [exc EXCEPT ![t] = NoError]
    /\ UNCHANGED <<configVars, requestVars, endpointVars,
                   registryVars, handlersLock, allocVars,
                   local, lifeVars, histVars>>

MakeNewHandlerLock(t) ==
    /\ pc[t] = "mk_lock"
    /\ CanLock
    /\ handlersLock' = t
    /\ pc' = [pc EXCEPT ![t] = "mk_bind"]
    /\ UNCHANGED <<configVars, requestVars, endpointVars,
                   registryVars, allocVars, local, exc,
                   lifeVars, histVars>>

MakeNewHandlerBind(t) ==
    /\ pc[t] = "mk_bind"
    /\ handlerLogger' = BindLogger(handlerLogger, local[t], logger)
    /\ pc' = [pc EXCEPT ![t] = "mk_insert"]
    /\ UNCHANGED <<configVars, requestVars, endpointVars,
                   handlerFactory, handlers, logger,
                   closeCount, handlersLock,
                   allocVars, local, exc, lifeVars, histVars>>

\* handlers.insert(handlerSp); the guard's scope ends
MakeNewHandlerInsert(t) ==
    /\ pc[t] = "mk_insert"
    /\ handlers' = SetInsert(handlers, local[t])
    /\ loggerAtInsert' = [loggerAtInsert EXCEPT ![local[t]] = logger]
    /\ handlersLock' = 0
    /\ pc' = [pc EXCEPT ![t] = "mk_return"]
    /\ UNCHANGED <<configVars, requestVars, endpointVars,
                   handlerFactory, logger, handlerLogger,
                   closeCount,
                   allocVars, local, exc, lifeVars, created, released, stopped>>

\* return handlerSp: the caller now holds the handle
MakeNewHandlerReturn(t) ==
    /\ pc[t] = "mk_return"
    /\ created' = created + 1
    /\ pc' = [pc EXCEPT ![t] = "idle"]
    /\ local' = [local EXCEPT ![t] = NoHandler]
    /\ UNCHANGED <<configVars, requestVars, endpointVars,
                   registryVars, handlersLock, numHandlers,
                   numLoggers, exc,
                   lifeVars, released, loggerAtInsert, stopped>>

\* ------------------------------------------------ finishedWithHandler
\* h is a handle the caller holds, or a handler the registry never saw
FinishedWithHandlerLock(t, h) ==
    /\ Alive /\ pc[t] = "idle"
    /\ h \in Returned \cup {ForeignHandler}
    /\ CanLock
    /\ handlersLock' = t
    /\ pc' = [pc EXCEPT ![t] = "fin_erase"]
    /\ local' = [local EXCEPT ![t] = h]
    /\ UNCHANGED <<configVars, requestVars, endpointVars,
                   registryVars, allocVars, exc, lifeVars,
                   histVars>>

\* handlers.erase(handler); the guard's scope ends
FinishedWithHandlerErase(t) ==
    /\ pc[t] = "fin_erase"
    /\ handlers' = SetErase(handlers, local[t])
    /\ released' = released + (IF local[t] \in handlers THEN 1 ELSE 0)
    /\ handlersLock' = 0
    /\ pc' = [pc EXCEPT ![t] = "idle"]
    /\ local' = [local EXCEPT ![t] = NoHandler]
    /\ UNCHANGED <<configVars, requestVars, endpointVars,
                   handlerFactory, logger, handlerLogger,
                   closeCount,
                   allocVars, exc, lifeVars, created, loggerAtInsert, stopped>>

\* ------------------------------------------------ startRequestLogging
\* a slip: startRequestLogging builds the logger without taking the lock
StartRequestLoggingLockFree(t) ==
    /\ Alive /\ pc[t] = "idle"
    /\ numLoggers < MaxLoggers
    /\ pc' = [pc EXCEPT ![t] = "start_assign"]
    /\ UNCHANGED <<configVars, requestVars, endpointVars, registryVars, handlersLock,
                   allocVars, local, exc, lifeVars, histVars>>

StartRequestLoggingLock(t) ==
    /\ Alive /\ pc[t] = "idle"
    /\ numLoggers < MaxLoggers
    /\ CanLock
    /\ handlersLock' = t
    /\ pc' = [pc EXCEPT ![t] = "start_assign"]
    /\ UNCHANGED <<configVars, requestVars, endpointVars,
                   registryVars, allocVars, local, exc,
                   lifeVars, histVars>>

\* a slip: the new logger is also handed to the handlers already registered
StartRequestLoggingAssignRebinding(t) ==
    /\ pc[t] = "start_assign"
    /\ numLoggers' = numLoggers + 1
    /\ logger' = numLoggers + 1
    /\ handlerLogger' = [h \in HandlerIds |->
                           IF h \in handlers THEN numLoggers + 1 ELSE handlerLogger[h]]
    /\ handlersLock' = 0
    /\ pc' = [pc EXCEPT ![t] = "idle"]
    /\ UNCHANGED <<configVars, requestVars, endpointVars,
                   handlerFactory, handlers, closeCount,
                   numHandlers, local, exc, lifeVars, histVars>>

\* logger = std::make_shared<HttpAuctionLogger>(filename, count);
\* the guard's scope ends
StartRequestLoggingAssign(t) ==
    /\ pc[t] = "start_assign"
    /\ numLoggers' = numLoggers + 1
    /\ logger' = numLoggers + 1
    /\ handlersLock' = 0
    /\ pc' = [pc EXCEPT ![t] = "idle"]
    /\ UNCHANGED <<configVars, requestVars, endpointVars,
                   handlerFactory, handlers, handlerLogger,
                   closeCount,
                   numHandlers, local, exc, lifeVars, histVars>>

\* ------------------------------------------------- stopRequestLogging
StopRequestLoggingLock(t) ==
    /\ Alive /\ pc[t] = "idle"
    /\ CanLock
    /\ handlersLock' = t
    /\ pc' = [pc EXCEPT ![t] = "stop_close"]
    /\ UNCHANGED <<configVars, requestVars, endpointVars,
                   registryVars, allocVars, local, exc,
                   lifeVars, histVars>>

StopRequestLoggingClose(t) ==
    /\ pc[t] = "stop_close"
    /\ closeCount' = CloseLogger(closeCount, logger)
    /\ pc' = [pc EXCEPT ![t] = "stop_reset"]
    /\ UNCHANGED <<configVars, requestVars, endpointVars,
                   handlerFactory, handlers, logger,
                   handlerLogger, handlersLock,
                   allocVars, local, exc, lifeVars, histVars>>

\* a slip: the connector keeps its pointer to the logger it has closed
StopRequestLoggingResetKeeping(t) ==
    /\ pc[t] = "stop_reset"
    /\ stopped' = stopped \cup ({logger} \ {NoLogger})
    /\ handlersLock' = 0
    /\ pc' = [pc EXCEPT ![t] = "idle"]
    /\ UNCHANGED <<configVars, requestVars, endpointVars, registryVars, allocVars,
                   local, exc, lifeVars, created, released, loggerAtInsert>>

\* logger.reset(); the guard's scope ends
StopRequestLoggingReset(t) ==
    /\ pc[t] = "stop_reset"
    /\ logger' = NoLogger
    /\ stopped' = stopped \cup ({logger} \ {NoLogger})
    /\ handlersLock' = 0
    /\ pc' = [pc EXCEPT ![t] = "idle"]
    /\ UNCHANGED <<configVars, requestVars, endpointVars,
                   handlerFactory, handlers, handlerLogger,
                   closeCount,
                   allocVars, local, exc, lifeVars, created, released, loggerAtInsert>>

\* ---------------------------------------------------- handlerFactory
\* the owner replaces the public handlerFactory member between calls
SetHandlerFactory(f) ==
    /\ mainPc = "ready" /\ AllIdle
    /\ f # handlerFactory
    /\ handlerFactory' = f
    /\ UNCHANGED <<configVars, requestVars, endpointVars,
                   handlers, logger, handlerLogger,
                   closeCount, handlersLock,
                   allocVars, threadVars, lifeVars, histVars>>

\* ------------------------------------------------------------- start
\* PassiveEndpoint::init binds and starts the workers, or throws
StartInit(ok) ==
    /\ mainPc = "ready" /\ transport = "constructed"
    /\ IF ok
       THEN /\ transport' = "running"
            /\ mainPc' = "start_rt"
            /\ mainExc' = mainExc
       ELSE /\ transport' = transport
            /\ mainPc' = "threw"
            /\ mainExc' = BindError
    /\ initArgs' = <<listenPort, bindHost, numThreads, TRUE, performNameLookup, backlog>>
    /\ UNCHANGED <<configVars, requestVars, connections, numServingRequest,
                   serviceStatus, registryVars, handlersLock, allocVars,
                   threadVars, baseShutdown, realTimePriority, realTime,
                   shutdownCalls, shutdownLogger, histVars>>

\* a slip: real-time scheduling is requested whatever the priority
StartRealTimeAlways ==
    /\ mainPc = "start_rt"
    /\ realTime' = TRUE
    /\ mainPc' = "ready"
    /\ UNCHANGED <<configVars, requestVars, endpointVars, registryVars, handlersLock,
                   allocVars, threadVars, mainExc, transport, baseShutdown,
                   realTimePriority, shutdownCalls, shutdownLogger, histVars>>

StartRealTime ==
    /\ mainPc = "start_rt"
    /\ realTime' = (realTime \/ realTimePriority > -1)
    /\ mainPc' = "ready"
    /\ UNCHANGED <<configVars, requestVars, endpointVars,
                   registryVars, handlersLock, allocVars,
                   threadVars, mainExc, transport, baseShutdown, realTimePriority,
                   shutdownCalls, shutdownLogger, histVars>>

MainUnwind ==
    /\ mainPc = "threw"
    /\ mainPc' = "ready"
    /\ mainExc' = NoError
    /\ UNCHANGED <<configVars, requestVars, endpointVars,
                   registryVars, handlersLock, allocVars,
                   threadVars, transport, baseShutdown, realTimePriority, realTime,
                   shutdownCalls, shutdownLogger, histVars>>

\* ---------------------------------------------------------- configure
\* the option documents tried: recognized keys, and keys configure does not
\* know ("backlog" is the member's name, not its key)
OptionDocs ==
    << EmptyMap,
       [numThreads |-> 4, listenPort |-> 8080],
       [realTimePriority |-> 0],
       [realTimePriority |-> 10, bindHost |-> "localhost"],
       [realTimePriority |-> DefaultRealTimePriority, performNameLookup |-> FALSE],
       [connectionBacklog |-> 64, backlog |-> 7],
       [auctionResource |-> "/bid", auctionVerb |-> "POST", verbose |-> TRUE],
       [pingTimesByHostMs |-> [h \in {"exchange1"} |-> 5],
        pingTimeUnknownHostsMs |-> 35],
       [numThreads |-> DefaultNumThreads, listenPort |-> DefaultListenPort,
        bindHost |-> "*", auctionResource |-> "/ready"] >>

\* getParam: the value under the key when the document has it, else the
\* value the member already had
GetParam(parameters, val, name) ==
    IF name \in DOMAIN parameters THEN parameters[name] ELSE val

\* a slip: the backlog is read under the member's name
ConfigureBacklogKey(parameters) ==
    /\ mainPc = "ready"
    /\ numThreads' = GetParam(parameters, numThreads, "numThreads")
    /\ realTimePriority' = GetParam(parameters, realTimePriority, "realTimePriority")
    /\ listenPort' = GetParam(parameters, listenPort, "listenPort")
    /\ bindHost' = GetParam(parameters, bindHost, "bindHost")
    /\ performNameLookup' = GetParam(parameters, performNameLookup, "performNameLookup")
    /\ backlog' = GetParam(parameters, backlog, "backlog")
    /\ auctionResource' = GetParam(parameters, auctionResource, "auctionResource")
    /\ auctionVerb' = GetParam(parameters, auctionVerb, "auctionVerb")
    /\ pingTimesByHostMs' = GetParam(parameters, pingTimesByHostMs, "pingTimesByHostMs")
    /\ pingTimeUnknownHostsMs' =
           GetParam(parameters, pingTimeUnknownHostsMs, "pingTimeUnknownHostsMs")
    /\ UNCHANGED <<overrides, requestVars, endpointVars, registryVars, handlersLock,
                   allocVars, threadVars, mainPc, mainExc, transport, baseShutdown,
                   realTime, shutdownCalls, shutdownLogger, histVars>>

\* configure(parameters), called by the owner between its other calls
Configure(parameters) ==
    /\ mainPc = "ready"
    /\ numThreads' = GetParam(parameters, numThreads, "numThreads")
    /\ realTimePriority' = GetParam(parameters, realTimePriority, "realTimePriority")
    /\ listenPort' = GetParam(parameters, listenPort, "listenPort")
    /\ bindHost' = GetParam(parameters, bindHost, "bindHost")
    /\ performNameLookup' = GetParam(parameters, performNameLookup, "performNameLookup")
    /\ backlog' = GetParam(parameters, backlog, "connectionBacklog")
    /\ auctionResource' = GetParam(parameters, auctionResource, "auctionResource")
    /\ auctionVerb' = GetParam(parameters, auctionVerb, "auctionVerb")
    /\ pingTimesByHostMs' = GetParam(parameters, pingTimesByHostMs, "pingTimesByHostMs")
    /\ pingTimeUnknownHostsMs' =
           GetParam(parameters, pingTimeUnknownHostsMs, "pingTimeUnknownHostsMs")
    /\ UNCHANGED <<overrides, requestVars, endpointVars, registryVars, handlersLock,
                   allocVars, threadVars, mainPc, mainExc, transport, baseShutdown,
                   realTime, shutdownCalls, shutdownLogger, histVars>>

\* ------------------------------------------------------ getServiceStatus
\* numConnections() of the endpoint
NumConnections(byHost) ==
    LET Sum[S \in SUBSET Hosts] ==
            IF S = {} THEN 0
            ELSE LET h == CHOOSE x \in S : TRUE IN byHost[h] + Sum[S \ {h}]
    IN Sum[Hosts]

\* numConnectionsByHost() of the endpoint: the hosts that have connections
NumConnectionsByHost(byHost) ==
    [h \in {x \in Hosts : byHost[x] > 0} |-> byHost[h]]

RECURSIVE Gcd(_, _)
Gcd(a, b) == IF b = 0 THEN a ELSE Gcd(b, a % b)

\* a slip: the division is not guarded
XdivUnguarded(x, y) == <<x, y>>

\* xdiv: x / y, and 0 when y is 0.  The quotient is kept exact, as the
\* fraction <<numerator, denominator>> in lowest terms.
Xdiv(x, y) ==
    IF y = 0 THEN <<0, 1>> ELSE <<x \div Gcd(x, y), y \div Gcd(x, y)>>

\* the endpoint accepts a connection from a host / a connection closes
ConnectionOpen(h) ==
    /\ NumConnections(connections) < MaxConnections
    /\ connections' = [connections EXCEPT ![h] = @ + 1]
    /\ UNCHANGED <<connectorVars, configVars, requestVars, initArgs,
                   numServingRequest, serviceStatus>>

ConnectionClose(h) ==
    /\ connections[h] > 0
    /\ NumConnections(connections) > numServingRequest
    /\ connections' = [connections EXCEPT ![h] = @ - 1]
    /\ UNCHANGED <<connectorVars, configVars, requestVars, initArgs,
                   numServingRequest, serviceStatus>>

\* a connection starts / finishes serving a request
RequestBegin ==
    /\ numServingRequest < NumConnections(connections)
    /\ numServingRequest' = numServingRequest + 1
    /\ UNCHANGED <<connectorVars, configVars, requestVars, initArgs, connections,
                   serviceStatus>>

RequestEnd ==
    /\ numServingRequest > 0
    /\ numServingRequest' = numServingRequest - 1
    /\ UNCHANGED <<connectorVars, configVars, requestVars, initArgs, connections,
                   serviceStatus>>

\* getServiceStatus() const: the JSON object it returns
GetServiceStatus ==
    /\ serviceStatus' =
          << [numConnections |-> NumConnections(connections),
              activeConnections |-> numServingRequest,
              connectionLoadFactor |->
                  Xdiv(numServingRequest, NumConnections(connections)),
              hostConnections |-> NumConnectionsByHost(connections)] >>
    /\ UNCHANGED <<connectorVars, configVars, requestVars, initArgs, connections,
                   numServingRequest>>

\* ---------------------------------------------------------- shutdown
\* HttpEndpoint::shutdown(): the endpoint stops accepting and joins its workers
HttpEndpointShutdown(state) == "down"

\* shutdown(), called by the owner or by ~HttpExchangeConnector: its first
\* statement, HttpEndpoint::shutdown()
ShutdownTransport(caller) ==
    /\ mainPc = "ready"
    /\ caller = "dtor" => AllIdle
    /\ caller # "dtor" => shutdownCalls < MaxShutdowns
    /\ transport' = HttpEndpointShutdown(transport)
    /\ mainPc' = IF caller = "dtor" THEN "dtor_base" ELSE "sd_base"
    /\ shutdownLogger' = logger
    /\ UNCHANGED <<configVars, requestVars, endpointVars,
                   registryVars, handlersLock, allocVars,
                   threadVars, mainExc, baseShutdown, realTimePriority, realTime,
                   shutdownCalls, histVars>>

\* a slip: a second shutdown of the base is treated as an error
ShutdownBaseOnce ==
    /\ mainPc \in {"sd_base", "dtor_base"}
    /\ IF baseShutdown
       THEN /\ mainExc' = "already shut down"
            /\ mainPc' = "threw"
            /\ UNCHANGED <<baseShutdown, shutdownCalls>>
       ELSE /\ baseShutdown' = TRUE
            /\ shutdownCalls' = shutdownCalls + 1
            /\ mainPc' = IF mainPc = "dtor_base" THEN "dead" ELSE "ready"
            /\ mainExc' = mainExc
    /\ UNCHANGED <<configVars, requestVars, endpointVars,
                   registryVars, handlersLock, allocVars,
                   threadVars, transport, realTimePriority, realTime,
                   shutdownLogger, histVars>>

\* not in the code: shutdown() also stops the request logging
ShutdownBaseClosingLogger ==
    /\ mainPc \in {"sd_base", "dtor_base"}
    /\ baseShutdown' = TRUE
    /\ shutdownCalls' = shutdownCalls + 1
    /\ mainPc' = IF mainPc = "dtor_base" THEN "dead" ELSE "ready"
    /\ closeCount' = CloseLogger(closeCount, logger)
    /\ logger' = NoLogger
    /\ UNCHANGED <<configVars, requestVars, endpointVars,
                   handlerFactory, handlers, handlerLogger,
                   handlersLock, allocVars, threadVars, mainExc, transport,
                   realTimePriority, realTime, shutdownLogger, histVars>>

\* shutdown(): its second statement, ExchangeConnector::shutdown(); then the
\* call returns (and the destructor ends)
ShutdownBase ==
    /\ mainPc \in {"sd_base", "dtor_base"}
    /\ baseShutdown' = TRUE
    /\ shutdownCalls' = shutdownCalls + 1
    /\ mainPc' = IF mainPc = "dtor_base" THEN "dead" ELSE "ready"
    /\ UNCHANGED <<configVars, requestVars, endpointVars,
                   registryVars, handlersLock, allocVars,
                   threadVars, mainExc, transport, realTimePriority, realTime,
                   shutdownLogger, histVars>>

\* -------------------------------------------------- protocol methods
\* a call either returns a value or throws ML::Exception(what)
NoWhat == <<>>
Returns(v) == [threw |-> FALSE, value |-> v, what |-> NoWhat]
Throws(msg) == [threw |-> TRUE, value |-> 0, what |-> msg]

HttpResponse(code, type, body) ==
    [kind |-> "response", status |-> code, contentType |-> type, body |-> body,
     message |-> <<>>]
\* what HttpAuctionHandler::sendErrorResponse puts on the wire for a message
ErrorResponse(msg) ==
    [kind |-> "error", status |-> 400, contentType |-> "application/json", body |-> "",
     message |-> msg]

\* a slip: the base parseBidRequest hands back a request instead of throwing
ParseBidRequestBaseAccepting(header, payload) == Returns("bidRequest")
\* a slip: the base getResponse answers with an empty response
GetResponseBaseEmpty(header, auction) == Returns(HttpResponse(204, "none", ""))

\* the base class's parseBidRequest, getTimeAvailableMs and getResponse
ParseBidRequestBase(header, payload) ==
    Throws(<<"need to override HttpExchangeConnector::parseBidRequest">>)
GetTimeAvailableMsBase(header, payload) ==
    Throws(<<"need to override HttpExchangeConnector::getTimeAvailableMs">>)
GetResponseBase(header, auction) ==
    Throws(<<"need to override HttpExchangeConnector::getResponse">>)

\* a slip: the lookup's result is dropped
GetRoundTripTimeMsDefaultOnly(peerName) == pingTimeUnknownHostsMs

GetRoundTripTimeMs(peerName) ==
    IF peerName \notin DOMAIN pingTimesByHostMs
    THEN pingTimeUnknownHostsMs
    ELSE pingTimesByHostMs[peerName]

\* an exchange's overrides, as the contract of the protocol describes them
ExchangeParseBidRequest(header, payload) ==
    IF header.verb # auctionVerb \/ header.resource # auctionResource
    THEN Throws(<<"ProtocolError: unexpected ", header.verb, header.resource>>)
    ELSE IF payload # "valid"
    THEN Throws(<<"ParseError: malformed bid request">>)
    ELSE Returns("bidRequest")
ExchangeDeadlineMs == 100
ExchangeGetTimeAvailableMs(header, payload) ==
    Returns(ExchangeDeadlineMs - GetRoundTripTimeMs(header.peer))
ExchangeGetResponse(header, auction) ==
    Returns(IF auction = "bid"
            THEN HttpResponse(200, "application/json", "bid")
            ELSE HttpResponse(204, "none", ""))

\* virtual dispatch
ParseBidRequest(header, payload) ==
    IF "parseBidRequest" \in overrides
    THEN ExchangeParseBidRequest(header, payload)
    ELSE ParseBidRequestBase(header, payload)
GetTimeAvailableMs(header, payload) ==
    IF "getTimeAvailableMs" \in overrides
    THEN ExchangeGetTimeAvailableMs(header, payload)
    ELSE GetTimeAvailableMsBase(header, payload)
GetResponse(header, auction) ==
    IF "getResponse" \in overrides
    THEN ExchangeGetResponse(header, auction)
    ELSE GetResponseBase(header, auction)

\* a slip: a dropped auction gets an answer of its own
GetDroppedAuctionResponseDistinct(header, auction, reason) ==
    Returns(HttpResponse(503, "text/plain", reason))

\* Default for when dropped auction == no bid
GetDroppedAuctionResponse(header, auction, reason) == GetResponse(header, auction)
\* Default for when error == no bid
GetErrorResponse(header, auction, errorMessage) == GetResponse(header, auction)

\* a slip: the return after the "/ready" reply is missing
HandleUnknownRequestFallingThrough(header, payload) ==
    IF header.resource = "/ready"
    THEN <<HttpResponse(200, "text/plain", "1"),
           ErrorResponse(<<"unknown resource ", header.resource>>)>>
    ELSE <<ErrorResponse(<<"unknown resource ", header.resource>>)>>

\* a slip: "/ready" is only answered for the verb the exchange does not use
HandleUnknownRequestVerbBound(header, payload) ==
    IF header.resource = "/ready" /\ header.verb # auctionVerb
    THEN <<HttpResponse(200, "text/plain", "1")>>
    ELSE <<ErrorResponse(<<"unknown resource ", header.resource>>)>>

\* a slip: the error message leaves the resource out
HandleUnknownRequestNoPath(header, payload) ==
    IF header.resource = "/ready"
    THEN <<HttpResponse(200, "text/plain", "1")>>
    ELSE <<ErrorResponse(<<"unknown resource ">>)>>

\* what handleUnknownRequest puts on the wire
HandleUnknownRequest(header, payload) ==
    IF header.resource = "/ready"
    THEN <<HttpResponse(200, "text/plain", "1")>>
    ELSE <<ErrorResponse(<<"unknown resource ", header.resource>>)>>

\* ------------------------------------------------ one request's cycle
Terminal == {"Responded", "UnknownRequestHandled", "ErrorHandled"}

\* the transport hands the handler a complete request
ReceiveRequest(r) ==
    /\ reqState \in {"Idle"} \cup Terminal
    /\ request' = r
    /\ reqState' = "Received"
    /\ reqError' = <<>>
    /\ timeAvailableMs' = Unset
    /\ auctionOutcome' = "none"
    /\ replies' = <<>>
    /\ roundTripTimeMs' = Unset
    /\ UNCHANGED <<connectorVars, endpointVars, configVars>>

\* a resource that is not the auction's goes to handleUnknownRequest
RouteUnknownRequest ==
    /\ reqState = "Received"
    /\ request.resource # auctionResource
    /\ reqState' = "UnknownRequest"
    /\ UNCHANGED <<connectorVars, endpointVars, configVars,
                   request, reqError, timeAvailableMs,
                   auctionOutcome, replies, roundTripTimeMs>>

HandleUnknownRequestStep ==
    /\ reqState = "UnknownRequest"
    /\ replies' = replies \o HandleUnknownRequest(request, request.payload)
    /\ reqState' = "UnknownRequestHandled"
    /\ UNCHANGED <<connectorVars, endpointVars, configVars,
                   request, reqError, timeAvailableMs,
                   auctionOutcome, roundTripTimeMs>>

ParseStep ==
    /\ reqState = "Received"
    /\ request.resource = auctionResource
    /\ LET res == ParseBidRequest(request, request.payload) IN
         /\ reqState' = IF res.threw THEN "Error" ELSE "Parsed"
         /\ reqError' = res.what
    /\ UNCHANGED <<connectorVars, endpointVars, configVars, request, timeAvailableMs,
                   auctionOutcome, replies, roundTripTimeMs>>

TimeStep ==
    /\ reqState = "Parsed"
    /\ LET res == GetTimeAvailableMs(request, request.payload) IN
         /\ reqState' = IF res.threw THEN "Error" ELSE "TimeEstimated"
         /\ reqError' = res.what
         /\ timeAvailableMs' = IF res.threw THEN Unset ELSE <<res.value>>
    /\ UNCHANGED <<connectorVars, endpointVars, configVars,
                   request, auctionOutcome, replies,
                   roundTripTimeMs>>

\* the auction pipeline's outcome comes back
AuctionStep(outcome) ==
    /\ reqState = "TimeEstimated"
    /\ auctionOutcome' = outcome
    /\ reqState' = "Auctioned"
    /\ UNCHANGED <<connectorVars, endpointVars, configVars,
                   request, reqError, timeAvailableMs,
                   replies, roundTripTimeMs>>

RespondStep ==
    /\ reqState = "Auctioned"
    /\ LET res == CASE auctionOutcome = "dropped" ->
                        GetDroppedAuctionResponse(request, auctionOutcome, "dropped")
                     [] auctionOutcome = "error" ->
                        GetErrorResponse(request, auctionOutcome, "error")
                     [] OTHER -> GetResponse(request, auctionOutcome)
       IN
         /\ reqState' = IF res.threw THEN "Error" ELSE "Responded"
         /\ reqError' = res.what
         /\ replies' = IF res.threw THEN replies ELSE Append(replies, res.value)
    /\ UNCHANGED <<connectorVars, endpointVars, configVars, request, timeAvailableMs,
                   auctionOutcome, roundTripTimeMs>>

\* the handler answers a failed step with an error response
ErrorStep ==
    /\ reqState = "Error"
    /\ replies' = Append(replies, ErrorResponse(reqError))
    /\ reqState' = "ErrorHandled"
    /\ UNCHANGED <<connectorVars, endpointVars, configVars,
                   request, reqError, timeAvailableMs,
                   auctionOutcome, roundTripTimeMs>>

\* getRoundTripTimeMs for the connection of the request being served
GetRoundTripTimeMsCall ==
    /\ reqState \notin {"Idle"}
    /\ roundTripTimeMs = Unset
    /\ roundTripTimeMs' = <<GetRoundTripTimeMs(request.peer)>>
    /\ UNCHANGED <<connectorVars, endpointVars, configVars, request, reqState, reqError,
                   timeAvailableMs, auctionOutcome, replies>>

\* ------------------------------------------------------ specification
\* the registry under concurrent callers
Next ==
    \/ \E t \in Threads : MakeNewHandlerConstruct(t)
    \/ \E t \in Threads : Unwind(t)
    \/ \E t \in Threads : MakeNewHandlerLock(t)
    \/ \E t \in Threads : MakeNewHandlerBind(t)
    \/ \E t \in Threads : MakeNewHandlerInsert(t)
    \/ \E t \in Threads : MakeNewHandlerReturn(t)
    \/ \E t \in Threads, h \in HandlerIds \cup {ForeignHandler} : FinishedWithHandlerLock(t, h)
    \/ \E t \in Threads : FinishedWithHandlerErase(t)
    \/ \E t \in Threads : StartRequestLoggingLock(t)
    \/ \E t \in Threads : StartRequestLoggingAssign(t)
    \/ \E t \in Threads : StopRequestLoggingLock(t)
    \/ \E t \in Threads : StopRequestLoggingClose(t)
    \/ \E t \in Threads : StopRequestLoggingReset(t)
    \/ \E f \in FactoryStates : SetHandlerFactory(f)

Spec == Init /\ [][Next]_vars

\* the life cycle of the connector, with request logging switched on and off
\* and handlers coming and going meanwhile
NextLife ==
    \/ \E ok \in BOOLEAN : StartInit(ok)
    \/ StartRealTime
    \/ MainUnwind
    \/ \E caller \in {"shutdown", "dtor"} : ShutdownTransport(caller)
    \/ ShutdownBase
    \/ \E t \in Threads : StartRequestLoggingLock(t)
    \/ \E t \in Threads : StartRequestLoggingAssign(t)
    \/ \E t \in Threads : StopRequestLoggingLock(t)
    \/ \E t \in Threads : StopRequestLoggingClose(t)
    \/ \E t \in Threads : StopRequestLoggingReset(t)

SpecLife == Init /\ [][NextLife]_vars

\* one connection's requests, under every configuration and set of overrides
InitProtocol ==
    /\ InitConnector
    /\ auctionResource \in {"", "/bid", "/ready"}
    /\ auctionVerb \in Verbs
    /\ pingTimesByHostMs \in PingTables
    /\ pingTimeUnknownHostsMs \in UnknownHostPings
    /\ overrides \in SUBSET ProtocolMethods
    /\ InitRequestIdle

Requests ==
    [verb : Verbs, resource : Resources, payload : Payloads,
     peer : Hosts \cup {"stranger"}]

NextProtocol ==
    \/ \E r \in Requests : ReceiveRequest(r)
    \/ RouteUnknownRequest
    \/ HandleUnknownRequestStep
    \/ ParseStep
    \/ TimeStep
    \/ \E outcome \in {"bid", "nobid", "dropped", "error"} : AuctionStep(outcome)
    \/ RespondStep
    \/ ErrorStep
    \/ GetRoundTripTimeMsCall

SpecProtocol == InitProtocol /\ [][NextProtocol]_vars

\* the owner configures the connector and starts it
NextConfig ==
    \/ \E i \in 1..Len(OptionDocs) : Configure(OptionDocs[i])
    \/ \E ok \in BOOLEAN : StartInit(ok)
    \/ StartRealTime
    \/ MainUnwind

SpecConfig == Init /\ [][NextConfig]_vars

\* connections come and go while the status is asked for
NextStatus ==
    \/ \E h \in Hosts : ConnectionOpen(h)
    \/ \E h \in Hosts : ConnectionClose(h)
    \/ RequestBegin
    \/ RequestEnd
    \/ GetServiceStatus

SpecStatus == Init /\ [][NextStatus]_vars

\* ======================================================================
\* Properties of the handler registry (specification Spec)
\* ======================================================================
\* the handlers makeNewHandlerShared has inserted into the registry
Registered == handlers \cup Returned \cup
              {local[t] : t \in {u \in Threads : pc[u] = "mk_return"}}

\* C1: over every interleaving of makeNewHandlerShared and
\* finishedWithHandler calls, the size of the live set is the number of
\* creates that succeeded (those returned, and those that have inserted and
\* are about to return) minus the number of releases that found their
\* handler registered; the releases never outnumber the creates; and a
\* handler about to be returned by a create is in the live set.
C1_LiveCount ==
    /\ released <= created
    /\ Cardinality(handlers) =
           created + Cardinality({t \in Threads : pc[t] = "mk_return"}) - released
    /\ AllIdle => Cardinality(handlers) = created - released
    /\ \A t \in Threads : pc[t] = "mk_return" => local[t] \in handlers

\* two creates succeeded and one of the two handlers was released since
C1_Witness ==
    /\ AllIdle
    /\ created = 2
    /\ released = 1
    /\ Cardinality(handlers) = 1

\* C2 as the specification states it: the logger a registered handler was
\* bound to stays usable, neither closed nor destroyed, whatever
\* stopRequestLogging does later.
C2_LoggerStaysUsable ==
    \A h \in handlers \cap HandlerIds :
        handlerLogger[h] # NoLogger =>
            /\ closeCount[handlerLogger[h]] = 0
            /\ LoggerReferenced(handlerLogger[h])

\* C2, amended: a handler created while a logger is installed is bound to
\* that logger and keeps the object alive while it is registered; but a
\* stopRequestLogging that finds this logger installed closes the very
\* object the handler holds, so the handler's logger is closed from then on.
C2_BoundLoggerClosedByStop ==
    /\ \A h \in handlers \cap HandlerIds :
          /\ loggerAtInsert[h] # NoLogger => handlerLogger[h] = loggerAtInsert[h]
          /\ handlerLogger[h] # NoLogger => LoggerReferenced(handlerLogger[h])
          /\ handlerLogger[h] \in stopped => closeCount[handlerLogger[h]] >= 1
    /\ \A l \in LoggerIds :
          closeCount[l] >= 1 =>
              \/ l \in stopped
              \/ \E t \in Threads : pc[t] = "stop_reset" /\ logger = l

\* a registered handler holds a logger that stopRequestLogging has stopped
C2_Witness ==
    \E h \in handlers \cap HandlerIds :
        /\ handlerLogger[h] # NoLogger
        /\ handlerLogger[h] \in stopped
        /\ logger = NoLogger

\* C3: the logger a registered handler references is the one that was
\* current when the handler was registered (none if none was installed);
\* no later startRequestLogging or stopRequestLogging changes it, so a
\* logger is only ever held by handlers registered while it was current.
C3_BindingFixed ==
    \A h \in Registered \cap HandlerIds : handlerLogger[h] = loggerAtInsert[h]

\* a handler registered with no logger installed and a handler bound to the
\* first logger have both outlived the swap to the second logger
C3_Witness ==
    /\ AllIdle
    /\ handlers = {1, 2}
    /\ handlerLogger[1] = NoLogger
    /\ handlerLogger[2] = 1
    /\ logger = 2

\* the registry as the callers see it
Registry == <<handlers, logger, handlerLogger, closeCount>>

\* C4: makeNewHandlerShared throws "need to initialize handler factory"
\* when no factory is installed and the different "failed to create
\* handler" when the factory yields no instance; the throwing call and its
\* unwinding leave the live set, the logger and every binding unchanged and
\* construct no handler.
C4_FailedCreate ==
    [][\A t \in Threads :
          /\ (MakeNewHandlerConstruct(t) /\ handlerFactory = "empty") =>
                 /\ pc'[t] = "threw" /\ exc'[t] = ConfigurationError
                 /\ UNCHANGED <<Registry, numHandlers, handlersLock>>
          /\ (MakeNewHandlerConstruct(t) /\ handlerFactory = "returnsNull") =>
                 /\ pc'[t] = "threw" /\ exc'[t] = ConstructionError
                 /\ exc'[t] # ConfigurationError
                 /\ UNCHANGED <<Registry, numHandlers, handlersLock>>
          /\ Unwind(t) =>
                 /\ pc'[t] = "idle"
                 /\ UNCHANGED <<Registry, numHandlers, handlersLock>>
      ]_vars

\* a create failed for want of an instance while a handler was registered
C4_Witness ==
    \E t \in Threads :
        /\ pc[t] = "threw"
        /\ exc[t] = ConstructionError
        /\ handlers # {}
        /\ logger # NoLogger

\* C5: finishedWithHandler(h) removes h from the live set and nothing else:
\* the other handlers stay, the logger, the bindings and the loggers' state
\* are unchanged; when h is not registered the whole registry is unchanged.
C5_ReleaseFrame ==
    [][\A t \in Threads :
          /\ FinishedWithHandlerErase(t) =>
                 /\ handlers' = handlers \ {local[t]}
                 /\ \A g \in handlers : g # local[t] => g \in handlers'
                 /\ local[t] \notin handlers => handlers' = handlers
                 /\ UNCHANGED <<logger, handlerLogger, closeCount>>
          /\ (\E h \in HandlerIds \cup {ForeignHandler} : FinishedWithHandlerLock(t, h)) =>
                 UNCHANGED Registry
      ]_vars

\* one handler was released and another is still registered while a release
\* of a handler that is not registered is in its critical section
C5_Witness ==
    \E t \in Threads :
        /\ pc[t] = "fin_erase"
        /\ local[t] \notin handlers
        /\ released >= 1
        /\ handlers # {}

\* ======================================================================
\* Properties of the life cycle (specification SpecLife)
\* ======================================================================
ShutdownReturned == shutdownCalls >= 1 /\ mainPc \notin {"sd_base", "dtor_base"}

\* the order of shutdown()'s two statements: the base connector is shut down
\* only once the transport is down
ShutdownOrder ==
    /\ mainPc \in {"sd_base", "dtor_base"} => transport = "down"
    /\ baseShutdown => transport = "down"

\* C6 as the specification states it: shutdown() shuts the transport down
\* first and the connector's own resources after it, and once it has
\* returned the logger that was installed when it was called is closed.
C6_ShutdownClosesLogger ==
    /\ ShutdownOrder
    /\ (ShutdownReturned /\ shutdownLogger # NoLogger) =>
           closeCount[shutdownLogger] >= 1

\* C6, amended: shutdown() shuts the transport down first and the base
\* connector after it, and neither step touches the request logger: the
\* logger installed when shutdown() is called is neither closed nor
\* uninstalled by it (only stopRequestLogging does that).
C6_ShutdownKeepsLogger ==
    [][/\ \A caller \in {"shutdown", "dtor"} :
            ShutdownTransport(caller) =>
                /\ transport' = "down"
                /\ baseShutdown' = baseShutdown
                /\ UNCHANGED <<logger, closeCount>>
       /\ ShutdownBase =>
                /\ transport = "down" /\ transport' = "down"
                /\ baseShutdown'
                /\ UNCHANGED <<logger, closeCount>>
      ]_vars

\* shutdown() has returned and the logger installed when it was called is
\* still installed and has never been closed
C6_Witness ==
    /\ ShutdownReturned
    /\ mainPc = "ready"
    /\ transport = "down" /\ baseShutdown
    /\ shutdownLogger # NoLogger
    /\ logger = shutdownLogger
    /\ closeCount[shutdownLogger] = 0

\* what a caller can observe of the connector, the call position apart
ConnectorState ==
    <<registryVars, handlersLock, transport, baseShutdown, realTime, realTimePriority,
      configVars>>

\* C7: shutdown() is idempotent. Called on a connector that has been shut
\* down already, by the owner again or by the destructor, neither of its
\* steps changes the connector's state or raises an error, and the call
\* returns.
C7_ShutdownIdempotent ==
    [][/\ \A caller \in {"shutdown", "dtor"} :
            (ShutdownTransport(caller) /\ shutdownCalls >= 1) =>
                /\ UNCHANGED ConnectorState
                /\ mainExc' = NoError
                /\ mainPc' \in {"sd_base", "dtor_base"}
       /\ (ShutdownBase /\ shutdownCalls >= 1) =>
                /\ UNCHANGED ConnectorState
                /\ mainExc' = NoError
                /\ mainPc' \in {"ready", "dead"}
      ]_vars

\* the destructor's shutdown() has returned after an explicit shutdown()
C7_Witness ==
    /\ mainPc = "dead"
    /\ shutdownCalls = 2
    /\ transport = "down" /\ baseShutdown
    /\ mainExc = NoError

\* the request cycle, where every step that can be taken is taken in the end:
\* a worker runs a request's cycle to completion and the auction pipeline
\* always comes back with an outcome
ProtocolSteps ==
    \/ RouteUnknownRequest
    \/ HandleUnknownRequestStep
    \/ ParseStep
    \/ TimeStep
    \/ \E outcome \in {"bid", "nobid", "dropped", "error"} : AuctionStep(outcome)
    \/ RespondStep
    \/ ErrorStep

FairSpecProtocol == SpecProtocol /\ WF_vars(ProtocolSteps)

\* ======================================================================
\* Properties of the protocol (specifications SpecProtocol, FairSpecProtocol)
\* ======================================================================
\* the steps a request may take
RequestPath ==
    {<<"Received", "Parsed">>, <<"Parsed", "TimeEstimated">>,
     <<"TimeEstimated", "Auctioned">>, <<"Auctioned", "Responded">>,
     <<"Received", "UnknownRequest">>, <<"UnknownRequest", "UnknownRequestHandled">>,
     <<"Received", "Error">>, <<"Parsed", "Error">>, <<"Auctioned", "Error">>,
     <<"Error", "ErrorHandled">>}

C9_RoundTripTime ==
    /\ [](roundTripTimeMs # Unset =>
            /\ Len(roundTripTimeMs) = 1
            /\ request.peer \in DOMAIN pingTimesByHostMs =>
                   roundTripTimeMs[1] = pingTimesByHostMs[request.peer]
            /\ request.peer \notin DOMAIN pingTimesByHostMs =>
                   roundTripTimeMs[1] = pingTimeUnknownHostsMs)
    /\ [][GetRoundTripTimeMsCall =>
             /\ roundTripTimeMs' # Unset
             /\ UNCHANGED <<pingTimesByHostMs, pingTimeUnknownHostsMs>>]_vars

\* a configured peer got its own time, which is not the default
C9_Witness ==
    /\ roundTripTimeMs = <<5>>
    /\ request.peer \in DOMAIN pingTimesByHostMs
    /\ pingTimeUnknownHostsMs # 5

\* C10: a request for "/ready" that handleUnknownRequest has handled was
\* answered with exactly one reply, status 200, content type text/plain,
\* body "1", whatever auctionResource, auctionVerb and the overrides are.
C10_Ready ==
    (reqState = "UnknownRequestHandled" /\ request.resource = "/ready") =>
        /\ Len(replies) = 1
        /\ replies[1].kind = "response"
        /\ replies[1].status = 200
        /\ replies[1].contentType = "text/plain"
        /\ replies[1].body = "1"

\* "/ready" was answered on a connector whose exchange overrides every
\* method and expects POST /bid
C10_Witness ==
    /\ reqState = "UnknownRequestHandled"
    /\ request.resource = "/ready"
    /\ request.verb = "POST"
    /\ auctionResource = "/bid" /\ auctionVerb = "POST"
    /\ overrides = ProtocolMethods
    /\ Len(replies) = 1


\* the pieces a message was concatenated from
Contains(message, piece) == \E i \in 1..Len(message) : message[i] = piece

\* C11: a request for an unrecognized resource other than "/ready" that
\* handleUnknownRequest has handled was answered with exactly one reply, an
\* error response whose message contains the resource asked for; nothing
\* was thrown to the caller.
C11_UnknownResource ==
    (reqState = "UnknownRequestHandled" /\ request.resource # "/ready") =>
        /\ Len(replies) = 1
        /\ replies[1].kind = "error"
        /\ Contains(replies[1].message, request.resource)
        /\ reqError = NoWhat

\* "/other" was answered on a connector that expects POST /bid
C11_Witness ==
    /\ reqState = "UnknownRequestHandled"
    /\ request.resource = "/other"
    /\ auctionResource = "/bid"
    /\ Len(replies) = 1
    /\ replies[1].message = <<"unknown resource ", "/other">>

AuctionOutcomes == {"bid", "nobid", "dropped", "error"}
Reasons == {"dropped", "error", "too late"}

\* two calls end the same way: both throw the same, or both return the same
SameOutcome(a, b) ==
    /\ a.threw = b.threw
    /\ a.what = b.what
    /\ ~a.threw => a.value = b.value

\* C12: without an override, getDroppedAuctionResponse and getErrorResponse
\* end exactly as getResponse does for the same header and auction, whatever
\* the reason or the message: the same response, or the same failure.  So a
\* dropped or failed auction is answered with getResponse's response, and
\* goes to Error exactly when getResponse throws.
C12_DropAndErrorAsResponse ==
    /\ \A a \in AuctionOutcomes, why \in Reasons :
          /\ SameOutcome(GetDroppedAuctionResponse(request, a, why),
                         GetResponse(request, a))
          /\ SameOutcome(GetErrorResponse(request, a, why), GetResponse(request, a))
    /\ reqState = "Responded" =>
          /\ ~GetResponse(request, auctionOutcome).threw
          /\ replies = <<GetResponse(request, auctionOutcome).value>>
    /\ (reqState = "Error" /\ auctionOutcome # "none") =>
          /\ GetResponse(request, auctionOutcome).threw
          /\ reqError = GetResponse(request, auctionOutcome).what

\* a dropped auction was answered
C12_Witness ==
    /\ reqState = "Responded"
    /\ auctionOutcome = "dropped"
    /\ Len(replies) = 1

\* C13: the base parseBidRequest, getTimeAvailableMs and getResponse throw
\* for every request: a request only gets past a step whose method the
\* exchange overrides, and the failing step changes nothing of the connector
\* or its configuration and puts nothing on the wire.
C13_BaseMethodsFail ==
    /\ [](/\ ParseBidRequestBase(request, request.payload).threw
          /\ GetTimeAvailableMsBase(request, request.payload).threw
          /\ \A a \in AuctionOutcomes : GetResponseBase(request, a).threw
          /\ reqState \in {"Parsed", "TimeEstimated", "Auctioned", "Responded"} =>
                 "parseBidRequest" \in overrides
          /\ reqState \in {"TimeEstimated", "Auctioned", "Responded"} =>
                 "getTimeAvailableMs" \in overrides
          /\ reqState = "Responded" => "getResponse" \in overrides)
    /\ [][(ParseStep \/ TimeStep \/ RespondStep) =>
             /\ UNCHANGED <<connectorVars, endpointVars, configVars>>
             /\ reqState' = "Error" => replies' = replies]_vars

\* the base getResponse has thrown for a request that got through an
\* exchange's parseBidRequest and getTimeAvailableMs
C13_Witness ==
    /\ reqState = "Error"
    /\ reqError = <<"need to override HttpExchangeConnector::getResponse">>
    /\ "getResponse" \notin overrides
    /\ replies = <<>>

\* a request that is not the POST /bid the connector is configured for
Mismatch ==
    /\ auctionResource = "/bid" /\ auctionVerb = "POST"
    /\ reqState # "Idle"
    /\ request.verb # "POST" \/ request.resource # "/bid"

CriticalPcs == {"mk_bind", "mk_insert", "fin_erase", "start_assign",
                "stop_close", "stop_reset"}
InCriticalSection(t) == pc[t] \in CriticalPcs

\* C18: under every interleaving, the thread inside a critical section of
\* makeNewHandlerShared, finishedWithHandler, startRequestLogging or
\* stopRequestLogging is the one holding handlersLock, so no two threads
\* are inside critical sections together; hence the logger a handler was
\* bound to is still the current logger when the handler is inserted: the
\* binding and the insertion are one step for a concurrent logger swap.
C18_MutualExclusion ==
    /\ \A t, u \in Threads :
          (InCriticalSection(t) /\ InCriticalSection(u)) => t = u
    /\ \A t \in Threads : InCriticalSection(t) <=> handlersLock = t
    /\ \A t \in Threads : pc[t] = "mk_insert" => handlerLogger[local[t]] = logger
    /\ \A h \in Registered : loggerAtInsert[h] = handlerLogger[h]

\* a handler has been bound to the installed logger and is about to be
\* inserted, while another thread's makeNewHandlerShared waits for the lock
C18_Witness ==
    /\ pc[1] = "mk_insert"
    /\ handlersLock = 1
    /\ logger = 1
    /\ handlerLogger[local[1]] = 1
    /\ pc[2] = "mk_lock"

\* C19 as the specification states it: no thread holding handlersLock is at
\* a statement that performs I/O, in any of the four operations: the lock
\* is not held where a logger is constructed or an installed logger is
\* closed.
C19_NoIoUnderLock ==
    \A t \in Threads :
        handlersLock = t =>
            /\ pc[t] # "start_assign"
            /\ pc[t] = "stop_close" => logger = NoLogger

\* C19, amended: the critical sections of makeNewHandlerShared and
\* finishedWithHandler construct and close no logger, they only bind the
\* pointer and change the set; but startRequestLogging constructs the new
\* logger, and stopRequestLogging closes the installed one, while holding
\* handlersLock, and a logger is constructed or closed nowhere else.
C19_LoggerIoUnderLock ==
    [][/\ numLoggers' # numLoggers =>
            \E t \in Threads : handlersLock = t /\ pc[t] = "start_assign"
       /\ closeCount' # closeCount =>
            \E t \in Threads : handlersLock = t /\ pc[t] = "stop_close"
       /\ \A t \in Threads :
            (pc[t] \in {"mk_bind", "mk_insert", "fin_erase"} /\ pc'[t] # pc[t]) =>
                /\ numLoggers' = numLoggers
                /\ closeCount' = closeCount]_vars

\* stopRequestLogging has closed the installed logger and still holds the lock
C19_Witness ==
    /\ pc[1] = "stop_reset"
    /\ handlersLock = 1
    /\ logger = 1
    /\ closeCount[1] = 1

\* C20: over every sequence of startRequestLogging and stopRequestLogging
\* calls a logger is closed at most once: exactly the loggers a
\* stopRequestLogging call found installed are closed, once each, so a call
\* that finds none closes nothing; a logger that was stopped is not
\* installed any more, and a handler bound afterwards is not bound to it.
C20_ClosedOnce ==
    /\ \A l \in LoggerIds :
          closeCount[l] =
             IF l \in stopped \/ (\E t \in Threads : pc[t] = "stop_reset" /\ logger = l)
             THEN 1 ELSE 0
    /\ \A l \in stopped : logger # l
    /\ \A t \in Threads :
          pc[t] = "mk_insert" =>
             /\ handlerLogger[local[t]] \notin stopped
             /\ handlerLogger[local[t]] # NoLogger =>
                   closeCount[handlerLogger[local[t]]] = 0

\* a second stopRequestLogging in a row is at its end: it found no logger
\* and closed nothing, the first logger being closed once
C20_Witness ==
    /\ stopped = {1}
    /\ closeCount[1] = 1
    /\ closeCount[2] = 0
    /\ pc[1] = "stop_reset"
    /\ logger = NoLogger
    /\ numLoggers = 1

\* ======================================================================
\* Properties of the status report (specification SpecStatus)
\* ======================================================================
\* C15: a call of getServiceStatus reports the connection count and the
\* count of connections serving a request as they are, and as
\* connectionLoadFactor their quotient active / total, which is exactly 0
\* when there is no connection; the call changes nothing but its result.
C15_LoadFactor ==
    [][GetServiceStatus =>
         LET report == serviceStatus'[1]
             total == NumConnections(connections)
             factor == report.connectionLoadFactor
         IN /\ report.numConnections = total
            /\ report.activeConnections = numServingRequest
            /\ total = 0 => factor = <<0, 1>>
            /\ total > 0 => /\ factor[2] > 0
                            /\ factor[1] * total = numServingRequest * factor[2]
            /\ UNCHANGED <<connectorVars, configVars, requestVars, initArgs,
                           connections, numServingRequest>>]_vars

\* the status was asked for when the last connection had gone
C15_Witness ==
    /\ serviceStatus # NoStatus
    /\ serviceStatus[1].numConnections = 0
    /\ serviceStatus[1].activeConnections = 0
    /\ serviceStatus[1].connectionLoadFactor = <<0, 1>>
    /\ NumConnections(connections) = 0

\* ======================================================================
\* Properties of configure and start (specification SpecConfig)
\* ======================================================================
\* what configure is to do to one member, given the document
Applied(parameters, name, before, after) ==
    IF name \in DOMAIN parameters THEN after = parameters[name] ELSE after = before

\* C16: the connector starts with its constructor's defaults, and a call of
\* configure sets every member whose key is in the document to the value
\* given there, leaves every member whose key is missing as it was, and
\* changes nothing else, whatever other keys the document has.
C16_ConfigureFrame ==
    /\ numThreads = 8 /\ realTimePriority = -1 /\ listenPort = 10001
    /\ bindHost = "*" /\ performNameLookup = TRUE /\ backlog = DEF_BACKLOG
    /\ auctionResource = "" /\ auctionVerb = "" /\ pingTimesByHostMs = EmptyMap
    /\ pingTimeUnknownHostsMs = 20
    /\ [][\A i \in 1..Len(OptionDocs) :
            Configure(OptionDocs[i]) =>
              LET doc == OptionDocs[i] IN
              /\ Applied(doc, "numThreads", numThreads, numThreads')
              /\ Applied(doc, "realTimePriority", realTimePriority, realTimePriority')
              /\ Applied(doc, "listenPort", listenPort, listenPort')
              /\ Applied(doc, "bindHost", bindHost, bindHost')
              /\ Applied(doc, "performNameLookup", performNameLookup,
                         performNameLookup')
              /\ Applied(doc, "connectionBacklog", backlog, backlog')
              /\ Applied(doc, "auctionResource", auctionResource, auctionResource')
              /\ Applied(doc, "auctionVerb", auctionVerb, auctionVerb')
              /\ Applied(doc, "pingTimesByHostMs", pingTimesByHostMs,
                         pingTimesByHostMs')
              /\ Applied(doc, "pingTimeUnknownHostsMs", pingTimeUnknownHostsMs,
                         pingTimeUnknownHostsMs')
              /\ UNCHANGED <<overrides, requestVars, endpointVars, registryVars,
                             handlersLock, allocVars, threadVars, mainPc, mainExc,
                             transport, baseShutdown, realTime, shutdownCalls,
                             shutdownLogger, histVars>>]_vars

\* two documents were applied: the backlog and the worker count were set, a
\* later document without their keys left them, and the members no document
\* named have their defaults
C16_Witness ==
    /\ backlog = 64
    /\ numThreads = 4 /\ listenPort = 8080
    /\ realTimePriority = 10 /\ bindHost = "localhost"
    /\ performNameLookup = TRUE
    /\ auctionResource = "" /\ auctionVerb = ""
    /\ pingTimeUnknownHostsMs = DefaultPingTimeUnknownHostsMs
    /\ mainPc = "ready"

\* the members start() hands to PassiveEndpoint::init
CurrentInitArgs ==
    <<listenPort, bindHost, numThreads, TRUE, performNameLookup, backlog>>

\* C17: start() first calls the endpoint's init with the current
\* configuration, requesting no real-time scheduling yet; real-time
\* scheduling is requested only after init has succeeded, and exactly when
\* realTimePriority is non-negative; when init fails, its BindError leaves
\* start() with the endpoint not running and real-time scheduling never
\* requested.
C17_StartOrder ==
    /\ [](mainPc = "threw" =>
            /\ mainExc = BindError
            /\ transport = "constructed"
            /\ ~realTime)
    /\ [][/\ (\E ok \in BOOLEAN : StartInit(ok)) =>
               /\ initArgs' = CurrentInitArgs
               /\ realTime' = realTime
               /\ mainPc' \in {"start_rt", "threw"}
               /\ mainPc' = "start_rt" <=> transport' = "running"
          /\ realTime' # realTime =>
               /\ mainPc = "start_rt" /\ transport = "running"
               /\ realTimePriority >= 0
          /\ (mainPc = "start_rt" /\ mainPc' # "start_rt") =>
               realTime' = (realTimePriority >= 0)
          /\ mainPc = "threw" => (mainPc' = "ready" /\ realTime' = realTime)]_vars

\* a connector configured with priority 0 and another port was started
C17_Witness ==
    /\ mainPc = "ready"
    /\ transport = "running"
    /\ realTimePriority = 0
    /\ realTime
    /\ initArgs = <<8080, "*", 4, TRUE, TRUE, DEF_BACKLOG>>

====
